---- MODULE Spec2Model ----
(***************************************************************************)
(* A model of the Telegram/Ollama relay: the bot (src/telegramollama.py)   *)
(* and the HTTP service (src/ollamaflask.py).                              *)
(*                                                                         *)
(* Texts are sequences of one-character strings.  Positions in a text are  *)
(* 0-based, as in the Python source: the character at position p of s is   *)
(* s[p + 1].                                                               *)
(***************************************************************************)
EXTENDS Integers, Sequences, FiniteSets, TLC

VARIABLES
    text,            \* _split_text_preserve_markdown: the argument
    remaining_text,  \* _split_text_preserve_markdown: local remaining_text
    chunks,          \* _split_text_preserve_markdown: local chunks
    branch,          \* which statement of split appended each chunk
    spc,             \* position of the split call: "call", "loop", "done"
    etext,           \* _escape_markdown_v2: the argument of the first call
    escaped,         \* _escape_markdown_v2: what the successive calls returned,
                     \* each call after the first taking the value before it
    concurrent_updates, \* the Application's concurrent_updates setting: the
                     \* handlers of several updates may run at the same time
    active_models,   \* OllamaTelegramBot.active_models: user -> model name, or NoEntry
    installed,       \* the models the backend lists, in listing order
    hpc,             \* per user: position of the handler task
    hmodel,          \* handle_message: local model
    hout,            \* handle_message: outcome of the chat request
    herr,            \* handle_message: the exception get_user_model raised
    hchunks,         \* handle_message: local chunks
    hidx,            \* handle_message: loop index i
    hmode,           \* handle_message: parse mode of the next send_message
    hkind,           \* handle_message: which reply_text comes next
    hlog,            \* per user: the calls the handler made for the current message
    hdata,           \* per user: local data of a command handler (the listing
                     \* it fetched, the callback data it received)
    keyboard,        \* per user: the callback data of the buttons of the last
                     \* selection keyboard shown to the user
    conversations,   \* OllamaService.conversations: the history of each session
    known,           \* the session ids that are keys of OllamaService.conversations
    tpc,             \* per worker thread of the service: position in its request
    treq,            \* per worker thread: the request it serves
    tflag,           \* chat: the result of the test of line 68
    tsent,           \* chat: the messages passed to the runtime at line 75
    tans,            \* chat: the content of the runtime's answer
    tstale,          \* chat: the list object the thread looked up for its append
                     \* is no longer the session's history (it was replaced)
    tres             \* per worker thread: the last response it returned

escapeVars == <<etext, escaped>>
splitVars == <<text, remaining_text, chunks, branch, spc, escapeVars>>
botVars == <<concurrent_updates, active_models, installed, hpc, hmodel, hout, herr, hchunks, hidx,
             hmode, hkind, hlog, hdata, keyboard>>
serviceVars == <<conversations, known, tpc, treq, tflag, tsent, tans, tstale, tres>>
vars == <<text, remaining_text, chunks, branch, spc, etext, escaped, concurrent_updates,
          active_models, installed,
          hpc, hmodel, hout, herr, hchunks, hidx, hmode, hkind, hlog, hdata,
          keyboard, conversations, known, tpc, treq, tflag, tsent, tans, tstale, tres>>

----------------------------------------------------------------------------
(* Bounds of the model *)

\* MAX_MESSAGE_LENGTH of the source is 4000; the model scales it down so that
\* every text up to MaxTextLen can be enumerated.
MAX_MESSAGE_LENGTH == 7
\* longest input text
MaxTextLen == 12
\* most chunks one call may append before the model stops following it
MaxChunks == 12
\* a chat request is accepted only while the histories of all sessions, with
\* the messages the requests being served will append, stay within this length
MaxHistory == 4

----------------------------------------------------------------------------
(* Characters and texts *)

\* the backtick character (a TLA+ string cannot hold it)
BT == "BT"
NL == "\n"
DOT == "."
SP == " "
LETTER == "a"

FENCE == <<BT, BT, BT>>
PARAGRAPH == <<NL, NL>>
SENTENCE == <<DOT, SP>>

\* the input texts are the concatenations of these pieces
Tokens == {FENCE, PARAGRAPH, SENTENCE, <<LETTER>>}

RECURSIVE TextsOfLen(_)
TextsOfLen(n) ==
    IF n = 0 THEN {<<>>}
    ELSE UNION {{t \o tok : t \in TextsOfLen(n - Len(tok))} :
                    tok \in {k \in Tokens : Len(k) <= n}}

Texts == UNION {TextsOfLen(n) : n \in 0..MaxTextLen}

Max(S) == CHOOSE x \in S : \A y \in S : y <= x

\* s[:n]
Prefix(s, n) == SubSeq(s, 1, n)
\* a slip in s[n:]: the remainder starts one character late
SuffixDropsOne(s, n) == SubSeq(s, n + 2, Len(s))

\* s[n:]
Suffix(s, n) == SubSeq(s, n + 1, Len(s))

\* s[i:i+len(sub)] == sub
MatchAt(s, sub, i) ==
    /\ i >= 0
    /\ i + Len(sub) <= Len(s)
    /\ \A k \in 1..Len(sub) : s[i + k] = sub[k]

\* str.rfind(sub, 0, end): the highest i with s[i:i+len(sub)] == sub and
\* i + len(sub) <= end, or -1
Rfind(s, sub, end) ==
    LET hits == {i \in 0..(end - Len(sub)) : MatchAt(s, sub, i)}
    IN  IF hits = {} THEN -1 ELSE Max(hits)

\* [m.start() for m in re.finditer(FENCE, s)]: leftmost non-overlapping matches
RECURSIVE FenceScan(_, _)
FenceScan(s, pos) ==
    IF pos + 3 > Len(s) THEN <<>>
    ELSE IF MatchAt(s, FENCE, pos) THEN <<pos>> \o FenceScan(s, pos + 3)
    ELSE FenceScan(s, pos + 1)

CodeBlockStarts(s) == FenceScan(s, 0)

----------------------------------------------------------------------------
(* The bot's state *)

\* user ids (update.effective_user.id)
Users == {1, 2}

DEFAULT_MODEL == "mistral"

\* user_id not in self.active_models
NoEntry == "NoEntry"

\* the listings the backend may start with
Listings == {<<>>, <<"mistral">>, <<"llama3", "phi3">>}

\* main (line 386) and OllamaTelegramBot.__init__: the application is built
\* without concurrent_updates; no user has an active model; no handler runs
BotStart(listings) ==
    /\ concurrent_updates = FALSE
    /\ active_models = [u \in Users |-> NoEntry]
    /\ installed \in listings
    /\ hpc = [u \in Users |-> "idle"]
    /\ hmodel = [u \in Users |-> NoEntry]
    /\ hout = [u \in Users |-> "none"]
    /\ herr = [u \in Users |-> "none"]
    /\ hchunks = [u \in Users |-> <<>>]
    /\ hidx = [u \in Users |-> 0]
    /\ hmode = [u \in Users |-> "-"]
    /\ hkind = [u \in Users |-> "-"]
    /\ hlog = [u \in Users |-> <<>>]
    /\ hdata = [u \in Users |-> <<>>]
    /\ keyboard = [u \in Users |-> <<>>]

----------------------------------------------------------------------------
(* The HTTP service's state *)

\* the worker threads of the service (app.run serves each request in a thread)
Threads == {1, 2}

\* session ids: str(user_id) of the bot's users
Sessions == {"1", "2"}

NoRequest == [kind |-> "none", session_id |-> "-", message |-> "-"]

\* OllamaService.__init__ (line 15): no conversation; no request is served
ServiceStart ==
    /\ conversations = [sid \in Sessions |-> <<>>]
    /\ known = {}
    /\ tpc = [t \in Threads |-> "idle"]
    /\ treq = [t \in Threads |-> NoRequest]
    /\ tflag = [t \in Threads |-> FALSE]
    /\ tsent = [t \in Threads |-> <<>>]
    /\ tans = [t \in Threads |-> "-"]
    /\ tstale = [t \in Threads |-> FALSE]
    /\ tres = [t \in Threads |-> "none"]

----------------------------------------------------------------------------
(* _split_text_preserve_markdown *)

HALF == MAX_MESSAGE_LENGTH \div 2

\* a slip in lines 305-312: rfind without its end argument, so that a boundary
\* beyond the max length is taken
PlainCutPointUnbounded(s) ==
    LET paragraph_boundary == Rfind(s, PARAGRAPH, Len(s))
        sentence_boundary == Rfind(s, SENTENCE, Len(s))
    IN  IF paragraph_boundary > HALF THEN paragraph_boundary + 2
        ELSE IF sentence_boundary > HALF THEN sentence_boundary + 2
        ELSE MAX_MESSAGE_LENGTH

\* lines 302-312: the cut of the branch for fewer than two markers
PlainCutPoint(s) ==
    LET paragraph_boundary == Rfind(s, PARAGRAPH, MAX_MESSAGE_LENGTH)
        sentence_boundary == Rfind(s, SENTENCE, MAX_MESSAGE_LENGTH)
    IN  IF paragraph_boundary > HALF THEN paragraph_boundary + 2
        ELSE IF sentence_boundary > HALF THEN sentence_boundary + 2
        ELSE MAX_MESSAGE_LENGTH

\* lines 340-343: the cut of the fall-through branch
FallThroughCutPoint(s) ==
    LET paragraph_boundary == Rfind(s, PARAGRAPH, MAX_MESSAGE_LENGTH)
    IN  IF paragraph_boundary > HALF THEN paragraph_boundary + 2
        ELSE MAX_MESSAGE_LENGTH

\* line 325: the pair (start, end) would be split by the max length
Straddles(start, end) == start < MAX_MESSAGE_LENGTH /\ end > MAX_MESSAGE_LENGTH

\* lines 319-336: the inner while loop over the marker pairs, from index i
\* (0-based); it stops at the first pair that straddles the max length
\* (hit) or runs off the list.
RECURSIVE PairScan(_, _)
PairScan(starts, i) ==
    IF ~(i < Len(starts) - 1) THEN [hit |-> FALSE, i |-> i]
    ELSE IF Straddles(starts[i + 1], starts[i + 2]) THEN [hit |-> TRUE, i |-> i]
    ELSE PairScan(starts, i + 2)

\* a slip in line 330: the cut is made after the opening marker
BlockCutPointAfterMarker(s, start) ==
    LET cut_point == Rfind(s, PARAGRAPH, start)
    IN  IF cut_point <= 0 \/ cut_point < HALF THEN start + 3 ELSE cut_point

\* lines 327-330: the cut before the block that starts at start
BlockCutPoint(s, start) ==
    LET cut_point == Rfind(s, PARAGRAPH, start)
    IN  IF cut_point <= 0 \/ cut_point < HALF THEN start ELSE cut_point

\* no call of _escape_markdown_v2 is followed
EscapeIdle ==
    /\ etext = <<>>
    /\ escaped = <<>>

SplitInit ==
    /\ EscapeIdle
    /\ text \in Texts
    /\ remaining_text = <<>>
    /\ chunks = <<>>
    /\ branch = <<>>
    /\ spc = "call"
    /\ BotStart({<<>>})
    /\ ServiceStart

\* no call of split is followed step by step
SplitIdle ==
    /\ EscapeIdle
    /\ text = <<>>
    /\ remaining_text = <<>>
    /\ chunks = <<>>
    /\ branch = <<>>
    /\ spc = "idle"

\* lines 285-286
SplitShort ==
    /\ spc = "call"
    /\ Len(text) <= MAX_MESSAGE_LENGTH
    /\ chunks' = <<text>>
    /\ branch' = <<"short">>
    /\ spc' = "done"
    /\ UNCHANGED <<text, remaining_text, escapeVars, botVars, serviceVars>>

\* lines 288-289
SplitLong ==
    /\ spc = "call"
    /\ Len(text) > MAX_MESSAGE_LENGTH
    /\ chunks' = <<>>
    /\ branch' = <<>>
    /\ remaining_text' = text
    /\ spc' = "loop"
    /\ UNCHANGED <<text, escapeVars, botVars, serviceVars>>

\* line 292 with an empty remaining_text, and lines 293-295
SplitLast ==
    /\ spc = "loop"
    /\ Len(remaining_text) <= MAX_MESSAGE_LENGTH
    /\ IF remaining_text = <<>>
       THEN UNCHANGED <<chunks, branch>>
       ELSE /\ chunks' = Append(chunks, remaining_text)
            /\ branch' = Append(branch, "last")
    /\ spc' = "done"
    /\ UNCHANGED <<text, remaining_text, escapeVars, botVars, serviceVars>>

\* chunks.append(remaining_text[:cut_point]); remaining_text = remaining_text[cut_point:]
Cut(cut_point, how) ==
    /\ chunks' = Append(chunks, Prefix(remaining_text, cut_point))
    /\ branch' = Append(branch, how)
    /\ remaining_text' = Suffix(remaining_text, cut_point)
    /\ UNCHANGED <<text, spc, escapeVars, botVars, serviceVars>>

\* one pass of the outer loop through lines 301-316
SplitPlain ==
    /\ spc = "loop"
    /\ Len(chunks) < MaxChunks
    /\ Len(remaining_text) > MAX_MESSAGE_LENGTH
    /\ Len(CodeBlockStarts(remaining_text)) < 2
    /\ Cut(PlainCutPoint(remaining_text), "plain")

\* one pass of the outer loop through lines 319-334: a pair straddles the max
\* length; after the break i < len(code_block_starts) - 1, so line 339 is false
SplitBlock ==
    /\ spc = "loop"
    /\ Len(chunks) < MaxChunks
    /\ Len(remaining_text) > MAX_MESSAGE_LENGTH
    /\ LET code_block_starts == CodeBlockStarts(remaining_text)
           scan == PairScan(code_block_starts, 0)
       IN  /\ Len(code_block_starts) >= 2
           /\ scan.hit
           /\ Cut(BlockCutPoint(remaining_text, code_block_starts[scan.i + 1]), "block")

\* one pass of the outer loop through lines 319-346: no pair straddles the
\* max length, the inner loop runs off the list and line 339 holds
SplitFallThrough ==
    /\ spc = "loop"
    /\ Len(chunks) < MaxChunks
    /\ Len(remaining_text) > MAX_MESSAGE_LENGTH
    /\ LET code_block_starts == CodeBlockStarts(remaining_text)
           scan == PairScan(code_block_starts, 0)
       IN  /\ Len(code_block_starts) >= 2
           /\ ~scan.hit
           /\ scan.i >= Len(code_block_starts) - 1
           /\ Cut(FallThroughCutPoint(remaining_text), "fallthrough")

\* The cut one pass of the outer loop makes in remaining text s (longer than
\* the max length): the cut point of SplitPlain, SplitBlock or SplitFallThrough.
PassCutPoint(s) ==
    LET code_block_starts == CodeBlockStarts(s)
        scan == PairScan(code_block_starts, 0)
    IN  IF Len(code_block_starts) < 2 THEN PlainCutPoint(s)
        ELSE IF scan.hit THEN BlockCutPoint(s, code_block_starts[scan.i + 1])
        ELSE FallThroughCutPoint(s)

\* The whole call: [returns |-> TRUE, chunks |-> the list split returns on s],
\* or returns = FALSE when a pass makes a zero-length cut (the pass then repeats,
\* appending an empty chunk each time, until the memory is exhausted: the call
\* returns no list).
RECURSIVE SplitRest(_)
SplitRest(s) ==
    IF s = <<>> THEN [returns |-> TRUE, chunks |-> <<>>]
    ELSE IF Len(s) <= MAX_MESSAGE_LENGTH THEN [returns |-> TRUE, chunks |-> <<s>>]
    ELSE LET cut_point == PassCutPoint(s)
         IN  IF cut_point = 0 THEN [returns |-> FALSE, chunks |-> <<>>]
             ELSE LET rest == SplitRest(Suffix(s, cut_point))
                  IN  [returns |-> rest.returns,
                       chunks |-> <<Prefix(s, cut_point)>> \o rest.chunks]

SplitChunks(s) ==
    IF Len(s) <= MAX_MESSAGE_LENGTH THEN [returns |-> TRUE, chunks |-> <<s>>]
    ELSE SplitRest(s)

SplitNext ==
    \/ SplitShort
    \/ SplitLong
    \/ SplitLast
    \/ SplitPlain
    \/ SplitBlock
    \/ SplitFallThrough

SpecSplit == SplitInit /\ [][SplitNext]_vars

----------------------------------------------------------------------------
(* Properties of _split_text_preserve_markdown *)

RECURSIVE Concat(_)
Concat(ss) == IF ss = <<>> THEN <<>> ELSE Head(ss) \o Concat(Tail(ss))

IsWhitespace(s) == \A k \in 1..Len(s) : s[k] \in {SP, NL}

\* the positions of the input text at which the chunks appended so far end
CutPositions == {Len(Concat(SubSeq(chunks, 1, k))) : k \in 1..Len(chunks)}

\* the fenced blocks of the input text: its markers taken pairwise
Blocks ==
    LET starts == CodeBlockStarts(text)
    IN  {<<starts[2 * j - 1], starts[2 * j]>> : j \in 1..(Len(starts) \div 2)}

EvenFences == Len(CodeBlockStarts(text)) % 2 = 0

\* C1: every pass of the outer loop of split strictly shortens
\* remaining_text (so the loop ends and no zero-length cut is repeated).
C1_EachPassShrinks ==
    [][(spc = "loop" /\ spc' = "loop")
          => Len(remaining_text') < Len(remaining_text)]_vars

\* C2: in a text with an even number of fence markers no chunk ends strictly
\* inside a fenced block, that is after the block's opening marker and before
\* the start of its closing marker, whichever branch made the cut.
C2_NoCutInsideBlock ==
    EvenFences =>
        \A cut \in CutPositions : \A b \in Blocks :
            ~(b[1] + 3 <= cut /\ cut < b[2])

\* C3: every fragment has length <= maxLength, and a call that has returned
\* has returned at least one fragment.
C3_FragmentsWithinMax ==
    /\ \A k \in 1..Len(chunks) : Len(chunks[k]) <= MAX_MESSAGE_LENGTH
    /\ spc = "done" => Len(chunks) >= 1

\* C3 witness: a call returned several fragments, one of them of the full
\* length and one made by the block-aware cut.
C3_Witness ==
    /\ spc = "done"
    /\ Len(chunks) >= 3
    /\ \E k \in 1..Len(chunks) : Len(chunks[k]) = MAX_MESSAGE_LENGTH
    /\ \E k \in 1..Len(branch) : branch[k] = "block"

\* C4: the fragments concatenated in order give back the input text, but for
\* a whitespace-only end of the text; while the loop runs, the fragments
\* followed by remaining_text are the input text.
C4_ConcatReconstructs ==
    /\ spc = "loop" => Concat(chunks) \o remaining_text = text
    /\ spc = "done" =>
          \E n \in 0..Len(text) :
              /\ Concat(chunks) = Prefix(text, n)
              /\ IsWhitespace(Suffix(text, n))

\* C4 witness: a call on a text with fences returned three or more
\* fragments, one of them made by the fall-through cut, that give back the text.
C4_Witness ==
    /\ spc = "done"
    /\ Len(chunks) >= 3
    /\ \E k \in 1..Len(branch) : branch[k] = "fallthrough"
    /\ Concat(chunks) = text

\* the text is longer than the max length and has a single fenced block
\* whose opening marker starts before the max length and whose closing marker
\* starts after it
SingleBlockStraddles ==
    LET starts == CodeBlockStarts(text)
    IN  /\ Len(text) > MAX_MESSAGE_LENGTH
        /\ Len(starts) = 2
        /\ starts[1] < MAX_MESSAGE_LENGTH
        /\ starts[2] > MAX_MESSAGE_LENGTH

\* C16: for a text longer than the max length with a single fenced block whose
\* opening marker starts before and whose closing marker starts after the max
\* length, the first fragment ends at or before the opening marker's position:
\* it is made by the block-aware cut and holds no character of the block.
C16_FirstCutBeforeBlock ==
    (SingleBlockStraddles /\ chunks # <<>>) =>
        /\ branch[1] = "block"
        /\ Len(chunks[1]) <= CodeBlockStarts(text)[1]
        /\ CodeBlockStarts(chunks[1]) = <<>>

\* C16 witness: a call on such a text has returned; the first fragment ends at
\* a paragraph break before the opening marker.
C16_Witness ==
    /\ SingleBlockStraddles
    /\ spc = "done"
    /\ Len(chunks) >= 2
    /\ Len(chunks[1]) > 0
    /\ Len(chunks[1]) < CodeBlockStarts(text)[1]

\* C17: when split has cut a text longer than the max length, the remainder
\* left after the last cut is not emitted when it is whitespace only, and is
\* the final fragment otherwise: no fragment made of the remainder is empty or
\* whitespace only.
C17_WhitespaceRemainderDiscarded ==
    (spc = "done" /\ Len(text) > MAX_MESSAGE_LENGTH) =>
        /\ \A k \in 1..Len(chunks) :
              branch[k] = "last" => ~IsWhitespace(chunks[k])
        /\ \E n \in 0..Len(text) :
              /\ Concat(chunks) = Prefix(text, n)
              /\ IsWhitespace(Suffix(text, n))

\* the positions in the trailing half of the window of the max length at
\* which pattern pat (two characters) lies wholly inside the window
InTrailingHalf(s, pat) ==
    {p \in (HALF + 1)..(MAX_MESSAGE_LENGTH - 2) :
        /\ p + 2 <= Len(s)
        /\ s[p + 1] = pat[1]
        /\ s[p + 2] = pat[2]}

\* the cut after the last paragraph break of the trailing half, else after
\* the last sentence terminator of the trailing half, else at the max length
PreferredCut(s) ==
    IF InTrailingHalf(s, PARAGRAPH) # {} THEN Max(InTrailingHalf(s, PARAGRAPH)) + 2
    ELSE IF InTrailingHalf(s, SENTENCE) # {} THEN Max(InTrailingHalf(s, SENTENCE)) + 2
    ELSE MAX_MESSAGE_LENGTH

\* C20: every cut that no straddling block forces, in the branch for fewer
\* than two markers and in the fall-through branch alike, is made right after
\* the last paragraph break in the trailing half of the window when there is
\* one, else right after the last sentence terminator there when there is one,
\* else at exactly the max length.
C20_PreferredBoundaries ==
    [][(/\ Len(branch') = Len(branch) + 1
        /\ branch'[Len(branch')] \in {"plain", "fallthrough"})
          => Len(chunks'[Len(chunks')]) = PreferredCut(remaining_text)]_vars

----------------------------------------------------------------------------
(* _escape_markdown_v2 *)

\* the backslash character
BS == "\\"

\* line 358: escape_chars, in the order of the loop of line 364
ESCAPE_CHARS ==
    <<"_", "*", "[", "]", "(", ")", "~", BT, ">", "#", "+", "-", "=", "|", "{", "}", DOT, "!">>

\* the pieces the arguments of the first call are made of
EscapeTokens == {FENCE, <<BT>>, <<NL>>, <<SP>>, <<LETTER>>, <<DOT>>, <<BS>>}

\* most pieces of an argument
MaxPieces == 5

RECURSIVE PiecesOf(_)
PiecesOf(n) ==
    IF n = 0 THEN {<<>>}
    ELSE {t \o tok : t \in PiecesOf(n - 1), tok \in EscapeTokens}

Fragments == UNION {PiecesOf(n) : n \in 0..MaxPieces}

Min(S) == CHOOSE x \in S : \A y \in S : x <= y

\* line 355: text.split(FENCE), the pieces between the leftmost
\* non-overlapping markers
RECURSIVE SplitFence(_)
SplitFence(s) ==
    LET hits == {i \in 0..(Len(s) - 3) : MatchAt(s, FENCE, i)}
    IN  IF hits = {} THEN <<s>>
        ELSE <<Prefix(s, Min(hits))>> \o SplitFence(Suffix(s, Min(hits) + 3))

\* line 365: part.replace(char, backslash + char)
Replace(s, char) ==
    Concat([k \in 1..Len(s) |-> IF s[k] = char THEN <<BS, char>> ELSE <<s[k]>>])

\* lines 364-365: the loop over escape_chars, from the k-th character on
RECURSIVE EscapeOutside(_, _)
EscapeOutside(part, k) ==
    IF k > Len(ESCAPE_CHARS) THEN part
    ELSE EscapeOutside(Replace(part, ESCAPE_CHARS[k]), k + 1)

\* str.strip(): the whitespace at both ends is removed
Strip(s) ==
    LET inner == {k \in 1..Len(s) : ~IsWhitespace(<<s[k]>>)}
    IN  IF inner = {} THEN <<>> ELSE SubSeq(s, Min(inner), Max(inner))

\* str.split(NL, 1): at most one split, at the first line feed
SplitFirstLine(s) ==
    LET feeds == {k \in 1..Len(s) : s[k] = NL}
    IN  IF feeds = {} THEN <<s>>
        ELSE <<SubSeq(s, 1, Min(feeds) - 1), SubSeq(s, Min(feeds) + 1, Len(s))>>

\* lines 368-373: a part inside a block is replaced by its language line, a
\* line feed and its code when it has a language line
CodePart(part) ==
    LET code_lines == SplitFirstLine(Strip(part))
    IN  IF Len(code_lines) > 1 /\ code_lines[1] # <<>>
        THEN code_lines[1] \o <<NL>> \o code_lines[2]
        ELSE part

\* line 376: FENCE.join(parts)
RECURSIVE JoinFence(_)
JoinFence(parts) ==
    IF Len(parts) = 1 THEN parts[1]
    ELSE parts[1] \o FENCE \o JoinFence(Tail(parts))

\* lines 355-376: the parts with an even index (0-based) are outside blocks
escape_markdown_v2(s) ==
    LET parts == SplitFence(s)
    IN  JoinFence([i \in 1..Len(parts) |->
                      IF (i - 1) % 2 = 0 THEN EscapeOutside(parts[i], 1)
                      ELSE CodePart(parts[i])])

EscapeInit ==
    /\ etext \in Fragments
    /\ escaped = <<>>
    /\ text = <<>>
    /\ remaining_text = <<>>
    /\ chunks = <<>>
    /\ branch = <<>>
    /\ spc = "idle"
    /\ BotStart({<<>>})
    /\ ServiceStart

\* line 248: the chunk is escaped
EscapeChunk ==
    /\ escaped = <<>>
    /\ escaped' = <<escape_markdown_v2(etext)>>
    /\ UNCHANGED <<etext, text, remaining_text, chunks, branch, spc, botVars, serviceVars>>

\* the value a call returned is escaped again
EscapeAgain ==
    /\ Len(escaped) = 1
    /\ escaped' = Append(escaped, escape_markdown_v2(escaped[1]))
    /\ UNCHANGED <<etext, text, remaining_text, chunks, branch, spc, botVars, serviceVars>>

EscapeNext ==
    \/ EscapeChunk
    \/ EscapeAgain

SpecEscape == EscapeInit /\ [][EscapeNext]_vars

----------------------------------------------------------------------------
(* Properties of _escape_markdown_v2 *)

\* part with an escape marker before each of its characters of the escape set
Marked(part) ==
    Concat([k \in 1..Len(part) |->
               IF \E c \in 1..Len(ESCAPE_CHARS) : ESCAPE_CHARS[c] = part[k]
               THEN <<BS, part[k]>> ELSE <<part[k]>>])

Backslashes(part) == Cardinality({k \in 1..Len(part) : part[k] = BS})

\* C21: escaping a fragment leaves the number and the order of its fence
\* markers unchanged, puts an escape marker before every character of the
\* escape set outside the fenced segments, puts none inside the fenced
\* segments, and escaping the escaped fragment again returns it unchanged.
C21_EscapeIdempotent ==
    escaped # <<>> =>
        LET before == SplitFence(etext)
            after == SplitFence(escaped[1])
        IN  /\ Len(CodeBlockStarts(escaped[1])) = Len(CodeBlockStarts(etext))
            /\ Len(after) = Len(before)
            /\ \A i \in 1..Len(before) :
                  IF (i - 1) % 2 = 0
                  THEN after[i] = Marked(before[i])
                  ELSE Backslashes(after[i]) = Backslashes(before[i])
            /\ Len(escaped) = 2 => escaped[2] = escaped[1]

----------------------------------------------------------------------------
(* The bot: ensure_model_exists, get_user_model, handle_message *)

\* one call the handler made: a backend request (list, pull, chat) or a call
\* of the chat platform (typing, send, reply)
Entry(op, arg, mode, ok) == [op |-> op, arg |-> arg, mode |-> mode, ok |-> ok]

\* GET /models: answered with the listing, answered success = false, or raising
ListOutcomes == {"ok", "fail", "exc"}
\* POST /models/pull: answered success, answered success = false, or raising
PullOutcomes == {"ok", "fail", "exc"}
\* POST /chat: success = true; success = false; a status that is not ok; the
\* requests Timeout; the requests ConnectionError; any other exception
ChatOutcomes == {"success", "model_error", "http_error", "timeout", "connection", "other"}

InListing(model_name, listing) == \E k \in 1..Len(listing) : listing[k] = model_name

\* a slip in line 42: the model is pulled also when the listing has it
EnsureModelExistsAlwaysPulls(model_name, listing, lo, po) ==
    IF lo # "ok"
    THEN [result |-> FALSE, installed |-> listing,
          reqs |-> <<Entry("list", "-", "-", FALSE)>>]
    ELSE IF po = "ok"
    THEN [result |-> TRUE,
          installed |-> IF InListing(model_name, listing) THEN listing
                        ELSE Append(listing, model_name),
          reqs |-> <<Entry("list", "-", "-", TRUE),
                     Entry("pull", model_name, "-", TRUE)>>]
    ELSE [result |-> FALSE, installed |-> listing,
          reqs |-> <<Entry("list", "-", "-", TRUE),
                     Entry("pull", model_name, "-", FALSE)>>]

\* a slip in line 45: the answer of the pull is not looked at
EnsureModelExistsIgnoresPull(model_name, listing, lo, po) ==
    IF lo # "ok"
    THEN [result |-> FALSE, installed |-> listing,
          reqs |-> <<Entry("list", "-", "-", FALSE)>>]
    ELSE IF ~InListing(model_name, listing)
    THEN IF po = "ok"
         THEN [result |-> TRUE, installed |-> Append(listing, model_name),
               reqs |-> <<Entry("list", "-", "-", TRUE),
                          Entry("pull", model_name, "-", TRUE)>>]
         ELSE [result |-> TRUE, installed |-> listing,
               reqs |-> <<Entry("list", "-", "-", TRUE),
                          Entry("pull", model_name, "-", FALSE)>>]
    ELSE [result |-> TRUE, installed |-> listing,
          reqs |-> <<Entry("list", "-", "-", TRUE)>>]

\* lines 30-53, with the answers lo (listing) and po (pull) of the backend
EnsureModelExists(model_name, listing, lo, po) ==
    IF lo # "ok"
    THEN [result |-> FALSE, installed |-> listing,
          reqs |-> <<Entry("list", "-", "-", FALSE)>>]
    ELSE IF ~InListing(model_name, listing)
    THEN IF po = "ok"
         THEN [result |-> TRUE, installed |-> Append(listing, model_name),
               reqs |-> <<Entry("list", "-", "-", TRUE),
                          Entry("pull", model_name, "-", TRUE)>>]
         ELSE [result |-> FALSE, installed |-> listing,
               reqs |-> <<Entry("list", "-", "-", TRUE),
                          Entry("pull", model_name, "-", FALSE)>>]
    ELSE [result |-> TRUE, installed |-> listing,
          reqs |-> <<Entry("list", "-", "-", TRUE)>>]

\* a slip in line 66: the last model of the listing is taken
GetUserModelLastListed(entry, listing, lo1, po, lo2) ==
    IF entry # NoEntry
    THEN [entry |-> entry, model |-> entry, installed |-> listing,
          reqs |-> <<>>, error |-> "none"]
    ELSE LET e == EnsureModelExists(DEFAULT_MODEL, listing, lo1, po)
         IN  IF e.result
             THEN [entry |-> DEFAULT_MODEL, model |-> DEFAULT_MODEL,
                   installed |-> e.installed, reqs |-> e.reqs, error |-> "none"]
             ELSE IF lo2 = "exc"
             THEN [entry |-> NoEntry, model |-> NoEntry, installed |-> e.installed,
                   reqs |-> Append(e.reqs, Entry("list", "-", "-", FALSE)),
                   error |-> "RequestException"]
             ELSE IF lo2 = "ok" /\ e.installed # <<>>
             THEN [entry |-> e.installed[Len(e.installed)],
                   model |-> e.installed[Len(e.installed)],
                   installed |-> e.installed,
                   reqs |-> Append(e.reqs, Entry("list", "-", "-", TRUE)),
                   error |-> "none"]
             ELSE [entry |-> NoEntry, model |-> NoEntry, installed |-> e.installed,
                   reqs |-> Append(e.reqs, Entry("list", "-", "-", lo2 = "ok")),
                   error |-> "NoModelAvailable"]

\* a slip in lines 60-68: the default is recorded before it is known to exist
GetUserModelRecordsFirst(entry, listing, lo1, po, lo2) ==
    IF entry # NoEntry
    THEN [entry |-> entry, model |-> entry, installed |-> listing,
          reqs |-> <<>>, error |-> "none"]
    ELSE LET e == EnsureModelExists(DEFAULT_MODEL, listing, lo1, po)
         IN  IF e.result
             THEN [entry |-> DEFAULT_MODEL, model |-> DEFAULT_MODEL,
                   installed |-> e.installed, reqs |-> e.reqs, error |-> "none"]
             ELSE IF lo2 = "exc"
             THEN [entry |-> NoEntry, model |-> NoEntry, installed |-> e.installed,
                   reqs |-> Append(e.reqs, Entry("list", "-", "-", FALSE)),
                   error |-> "RequestException"]
             ELSE IF lo2 = "ok" /\ e.installed # <<>>
             THEN [entry |-> e.installed[1], model |-> e.installed[1],
                   installed |-> e.installed,
                   reqs |-> Append(e.reqs, Entry("list", "-", "-", TRUE)),
                   error |-> "none"]
             ELSE [entry |-> DEFAULT_MODEL, model |-> NoEntry, installed |-> e.installed,
                   reqs |-> Append(e.reqs, Entry("list", "-", "-", lo2 = "ok")),
                   error |-> "NoModelAvailable"]

\* lines 55-70 for a user whose entry of active_models is entry; lo1 and po
\* answer ensure_model_exists, lo2 the listing request of line 63
GetUserModel(entry, listing, lo1, po, lo2) ==
    IF entry # NoEntry
    THEN [entry |-> entry, model |-> entry, installed |-> listing,
          reqs |-> <<>>, error |-> "none"]
    ELSE LET e == EnsureModelExists(DEFAULT_MODEL, listing, lo1, po)
         IN  IF e.result
             THEN [entry |-> DEFAULT_MODEL, model |-> DEFAULT_MODEL,
                   installed |-> e.installed, reqs |-> e.reqs, error |-> "none"]
             ELSE IF lo2 = "exc"
             THEN [entry |-> NoEntry, model |-> NoEntry, installed |-> e.installed,
                   reqs |-> Append(e.reqs, Entry("list", "-", "-", FALSE)),
                   error |-> "RequestException"]
             ELSE IF lo2 = "ok" /\ e.installed # <<>>
             THEN [entry |-> e.installed[1], model |-> e.installed[1],
                   installed |-> e.installed,
                   reqs |-> Append(e.reqs, Entry("list", "-", "-", TRUE)),
                   error |-> "none"]
             ELSE [entry |-> NoEntry, model |-> NoEntry, installed |-> e.installed,
                   reqs |-> Append(e.reqs, Entry("list", "-", "-", lo2 = "ok")),
                   error |-> "NoModelAvailable"]

\* a slip in lines 184-185 and 274: the exception of get_user_model is
\* swallowed and the handler goes on
AfterResolveSwallowed(error) == [pc |-> "typing", kind |-> "-"]

\* a slip in lines 185-191: the typing indicator is left out
AfterResolveSkipsTyping(error) ==
    IF error = "none" THEN [pc |-> "chat", kind |-> "-"]
    ELSE [pc |-> "reply", kind |-> "unexpected"]

\* lines 185 and 274-278: an exception of get_user_model reaches the outer
\* except, which replies the unexpected-error message
AfterResolve(error) ==
    IF error = "none" THEN [pc |-> "typing", kind |-> "-"]
    ELSE [pc |-> "reply", kind |-> "unexpected"]

\* a slip in lines 212-217: the chat request is issued again after a timeout
ClassifyChatRetry(outcome) ==
    CASE outcome = "success" -> [pc |-> "send", kind |-> "-"]
      [] outcome = "http_error" -> [pc |-> "reply", kind |-> "http_status"]
      [] outcome = "timeout" -> [pc |-> "chat", kind |-> "-"]
      [] outcome = "connection" -> [pc |-> "reply", kind |-> "connection"]
      [] outcome = "other" -> [pc |-> "reply", kind |-> "communication"]
      [] outcome = "model_error" -> [pc |-> "reply", kind |-> "model_error"]

\* a slip in lines 212-229: the handler for any Exception stands before the
\* handler for ConnectionError
ClassifyChatShadowed(outcome) ==
    CASE outcome = "success" -> [pc |-> "send", kind |-> "-"]
      [] outcome = "http_error" -> [pc |-> "reply", kind |-> "http_status"]
      [] outcome = "timeout" -> [pc |-> "reply", kind |-> "timeout"]
      [] outcome = "connection" -> [pc |-> "reply", kind |-> "communication"]
      [] outcome = "other" -> [pc |-> "reply", kind |-> "communication"]
      [] outcome = "model_error" -> [pc |-> "reply", kind |-> "model_error"]

\* lines 204-229, 231 and 268-273: what follows each outcome of the chat request
ClassifyChat(outcome) ==
    CASE outcome = "success" -> [pc |-> "send", kind |-> "-"]
      [] outcome = "http_error" -> [pc |-> "reply", kind |-> "http_status"]
      [] outcome = "timeout" -> [pc |-> "reply", kind |-> "timeout"]
      [] outcome = "connection" -> [pc |-> "reply", kind |-> "connection"]
      [] outcome = "other" -> [pc |-> "reply", kind |-> "communication"]
      [] outcome = "model_error" -> [pc |-> "reply", kind |-> "model_error"]

\* what each reply_text of handle_message shows of the backend's answer:
\* line 207 the status code, line 272 the error text, the others a fixed text
Shows(kind) ==
    CASE kind = "http_status" -> "status_code"
      [] kind = "model_error" -> "error_text"
      [] OTHER -> "fixed_text"

\* a slip in lines 254-267: no second send_message, the failure notice at once
AfterSendFailureNoFallback(mode) == [pc |-> "reply", mode |-> "-", kind |-> "partial"]

\* lines 254-267: after a failed MarkdownV2 send the chunk is sent without
\* parse mode; after that fails too the failure notice is replied
AfterSendFailure(mode) ==
    IF mode = "MarkdownV2" THEN [pc |-> "send", mode |-> "plain", kind |-> "-"]
    ELSE [pc |-> "reply", mode |-> "-", kind |-> "partial"]

\* a slip in line 267: no break, the loop goes on with the next chunk
AfterReplyOkNoBreak(kind, i, n) ==
    IF kind = "partial" /\ i + 1 < n THEN [pc |-> "between", idx |-> i + 1]
    ELSE [pc |-> "done", idx |-> i]

\* after a reply_text that was delivered: return (lines 209, 217, 223, 229),
\* break (line 267) or the end of the handler (lines 273, 278)
AfterReplyOk(kind, i, n) == [pc |-> "done", idx |-> i]

\* after a reply_text that raised: line 206 stands in the inner try, so line 224
\* catches it; the others reach the outer except of line 274; an exception of
\* line 276 leaves the handler
AfterReplyFailure(kind) ==
    CASE kind = "http_status" -> [pc |-> "reply", kind |-> "communication"]
      [] kind = "unexpected" -> [pc |-> "crashed", kind |-> "-"]
      [] OTHER -> [pc |-> "reply", kind |-> "unexpected"]

Letters(n) == [k \in 1..n |-> LETTER]

\* the response texts of the backend: one, two and three chunks long, and one
\* on which split makes no progress and returns no list
Replies == {Letters(1), Letters(MAX_MESSAGE_LENGTH + 1),
            Letters(2 * MAX_MESSAGE_LENGTH + 1),
            FENCE \o Letters(MAX_MESSAGE_LENGTH) \o FENCE}

\* the response texts when the handlers of the users are interleaved: two
\* chunks long, and one on which split makes no progress
ConcurrentReplies == {Letters(MAX_MESSAGE_LENGTH + 1),
                      FENCE \o Letters(MAX_MESSAGE_LENGTH) \o FENCE}

\* the response texts the backend may answer with
ReplyTexts == IF concurrent_updates THEN ConcurrentReplies ELSE Replies

Log(u, entries) == hlog' = [hlog EXCEPT ![u] = hlog[u] \o entries]

\* the answers of the backend that get_user_model may meet: none when the user
\* has an entry (no request is made)
ResolveAnswers(entry) ==
    IF entry # NoEntry THEN {<<"ok", "ok", "ok">>}
    ELSE ListOutcomes \X PullOutcomes \X ListOutcomes

\* lines 386-398: the application is built without concurrent_updates, so it
\* awaits the handler of one update before it takes the next update: a
\* handler starts only when no other handler is running
NoHandlerRuns == \A v \in Users : hpc[v] = "idle"

\* A handler of u may start: u has no handler running, and no other user has
\* one unless the application runs the handlers of several updates at a time
MayStart(u) ==
    /\ hpc[u] = "idle"
    /\ concurrent_updates \/ NoHandlerRuns

\* lines 180-185: a message of user u arrives; get_user_model
HandleMessage(u) ==
    /\ MayStart(u)
    /\ \E ans \in ResolveAnswers(active_models[u]) :
          LET r == GetUserModel(active_models[u], installed, ans[1], ans[2], ans[3])
              after == AfterResolve(r.error)
          IN  /\ active_models' = [active_models EXCEPT ![u] = r.entry]
              /\ installed' = r.installed
              /\ hmodel' = [hmodel EXCEPT ![u] = r.model]
              /\ herr' = [herr EXCEPT ![u] = r.error]
              /\ hlog' = [hlog EXCEPT ![u] = r.reqs]
              /\ hpc' = [hpc EXCEPT ![u] = after.pc]
              /\ hkind' = [hkind EXCEPT ![u] = after.kind]
    /\ hout' = [hout EXCEPT ![u] = "none"]
    /\ hchunks' = [hchunks EXCEPT ![u] = <<>>]
    /\ hidx' = [hidx EXCEPT ![u] = 0]
    /\ hmode' = [hmode EXCEPT ![u] = "-"]
    /\ UNCHANGED <<splitVars, serviceVars, concurrent_updates, hdata, keyboard>>

\* lines 188-191: the typing indicator
SendTyping(u) ==
    /\ hpc[u] = "typing"
    /\ \E ok \in BOOLEAN :
          /\ Log(u, <<Entry("typing", "-", "-", ok)>>)
          /\ hpc' = [hpc EXCEPT ![u] = IF ok THEN "chat" ELSE "reply"]
          /\ hkind' = [hkind EXCEPT ![u] = IF ok THEN "-" ELSE "unexpected"]
    /\ UNCHANGED <<splitVars, serviceVars, concurrent_updates, hdata, keyboard, active_models, installed, hmodel, hout, herr,
                   hchunks, hidx, hmode>>

\* lines 193-235 and 268-270: the chat request, its outcome, and split; on a
\* text on which split makes no progress the handler is in the loop of split
\* ("hung"), which appends an empty chunk on every pass
ChatRequest(u) ==
    /\ hpc[u] = "chat"
    /\ \E outcome \in ChatOutcomes :
          LET after == ClassifyChat(outcome)
          IN  /\ Log(u, <<Entry("chat", hmodel[u], "-", outcome = "success")>>)
              /\ hout' = [hout EXCEPT ![u] = outcome]
              /\ IF after.pc = "send"
                 THEN \E response_text \in ReplyTexts :
                        LET split == SplitChunks(response_text)
                        IN  /\ hchunks' = [hchunks EXCEPT ![u] = split.chunks]
                            /\ hpc' = [hpc EXCEPT ![u] =
                                          IF split.returns THEN "send" ELSE "hung"]
                            /\ hmode' = [hmode EXCEPT ![u] =
                                          IF split.returns THEN "MarkdownV2" ELSE "-"]
                            /\ hkind' = [hkind EXCEPT ![u] = "-"]
                 ELSE /\ hpc' = [hpc EXCEPT ![u] = after.pc]
                      /\ hkind' = [hkind EXCEPT ![u] = after.kind]
                      /\ UNCHANGED <<hchunks, hmode>>
    /\ UNCHANGED <<splitVars, serviceVars, concurrent_updates, hdata, keyboard, active_models, installed, hmodel, herr, hidx>>

\* the ends of a call of split that makes no progress
SplitEnds == {"MemoryError", "killed"}

\* lines 235 and 274-278: the list of empty chunks exhausts the memory; the
\* MemoryError is caught by the outer except, which replies the
\* unexpected-error message, or the process is killed for its memory use
SplitExhaustsMemory(u) ==
    /\ hpc[u] = "hung"
    /\ \E end \in SplitEnds :
          /\ hpc' = [hpc EXCEPT ![u] = IF end = "MemoryError" THEN "reply" ELSE "killed"]
          /\ hkind' = [hkind EXCEPT ![u] = IF end = "MemoryError" THEN "unexpected" ELSE "-"]
    /\ UNCHANGED <<splitVars, serviceVars, concurrent_updates, hdata, keyboard, active_models, installed, hmodel, hout, herr,
                   hchunks, hidx, hmode, hlog>>

\* lines 238-244: the typing indicator and the pause between two chunks
BetweenChunks(u) ==
    /\ hpc[u] = "between"
    /\ \E ok \in BOOLEAN :
          /\ Log(u, <<Entry("typing", "-", "-", ok)>>)
          /\ hpc' = [hpc EXCEPT ![u] = IF ok THEN "send" ELSE "reply"]
          /\ hmode' = [hmode EXCEPT ![u] = IF ok THEN "MarkdownV2" ELSE "-"]
          /\ hkind' = [hkind EXCEPT ![u] = IF ok THEN "-" ELSE "unexpected"]
    /\ UNCHANGED <<splitVars, serviceVars, concurrent_updates, hdata, keyboard, active_models, installed, hmodel, hout, herr,
                   hchunks, hidx>>

\* a send_message of chunk i in the mode hmode[u] was delivered (ok) or raised
SendChunk(u, ok) ==
    /\ Log(u, <<Entry("send", hidx[u], hmode[u], ok)>>)
    /\ IF ok
       THEN /\ hpc' = [hpc EXCEPT ![u] =
                         IF hidx[u] + 1 < Len(hchunks[u]) THEN "between" ELSE "done"]
            /\ hidx' = [hidx EXCEPT ![u] =
                         IF hidx[u] + 1 < Len(hchunks[u]) THEN hidx[u] + 1 ELSE hidx[u]]
            /\ hmode' = [hmode EXCEPT ![u] = "-"]
            /\ UNCHANGED hkind
       ELSE LET after == AfterSendFailure(hmode[u])
            IN  /\ hpc' = [hpc EXCEPT ![u] = after.pc]
                /\ hmode' = [hmode EXCEPT ![u] = after.mode]
                /\ hkind' = [hkind EXCEPT ![u] = after.kind]
                /\ UNCHANGED hidx
    /\ UNCHANGED <<splitVars, serviceVars, concurrent_updates, hdata, keyboard, active_models, installed, hmodel, hout, herr, hchunks>>

\* lines 246-256: the escaped chunk is sent with parse_mode MarkdownV2
SendMarkdown(u) ==
    /\ hpc[u] = "send"
    /\ hmode[u] = "MarkdownV2"
    /\ \E ok \in BOOLEAN : SendChunk(u, ok)

\* lines 257-263: the chunk is sent as it is, without parse mode
SendPlain(u) ==
    /\ hpc[u] = "send"
    /\ hmode[u] = "plain"
    /\ \E ok \in BOOLEAN : SendChunk(u, ok)

\* the reply_text of lines 206, 214, 220, 226, 264, 271 or 276
Reply(u) ==
    /\ hpc[u] = "reply"
    /\ \E ok \in BOOLEAN :
          /\ Log(u, <<Entry("reply", hkind[u], "-", ok)>>)
          /\ IF ok
             THEN LET after == AfterReplyOk(hkind[u], hidx[u], Len(hchunks[u]))
                  IN  /\ hpc' = [hpc EXCEPT ![u] = after.pc]
                      /\ hidx' = [hidx EXCEPT ![u] = after.idx]
                      /\ hkind' = [hkind EXCEPT ![u] = "-"]
             ELSE LET after == AfterReplyFailure(hkind[u])
                  IN  /\ hpc' = [hpc EXCEPT ![u] = after.pc]
                      /\ hkind' = [hkind EXCEPT ![u] = after.kind]
                      /\ UNCHANGED hidx
    /\ UNCHANGED <<splitVars, serviceVars, concurrent_updates, hdata, keyboard, active_models, installed, hmodel, hout, herr,
                   hchunks, hmode>>

\* the handler returns (or its exception leaves it): its locals are gone
Return(u) ==
    /\ hpc[u] \in {"done", "crashed"}
    /\ hpc' = [hpc EXCEPT ![u] = "idle"]
    /\ hmodel' = [hmodel EXCEPT ![u] = NoEntry]
    /\ hout' = [hout EXCEPT ![u] = "none"]
    /\ herr' = [herr EXCEPT ![u] = "none"]
    /\ hchunks' = [hchunks EXCEPT ![u] = <<>>]
    /\ hidx' = [hidx EXCEPT ![u] = 0]
    /\ hmode' = [hmode EXCEPT ![u] = "-"]
    /\ hkind' = [hkind EXCEPT ![u] = "-"]
    /\ hlog' = [hlog EXCEPT ![u] = <<>>]
    /\ hdata' = [hdata EXCEPT ![u] = <<>>]
    /\ UNCHANGED <<splitVars, serviceVars, concurrent_updates, active_models, installed, keyboard>>

RelayInit == SplitIdle /\ BotStart(Listings) /\ ServiceStart

RelayNext ==
    \E u \in Users :
        \/ HandleMessage(u)
        \/ SendTyping(u)
        \/ ChatRequest(u)
        \/ SplitExhaustsMemory(u)
        \/ BetweenChunks(u)
        \/ SendMarkdown(u)
        \/ SendPlain(u)
        \/ Reply(u)
        \/ Return(u)

SpecRelay == RelayInit /\ [][RelayNext]_vars

----------------------------------------------------------------------------
(* Properties of handle_message *)

\* the positions of the log of u that hold a call op
At(u, op) == {p \in 1..Len(hlog[u]) : hlog[u][p].op = op}

\* the handler of u has ended
Ended(u) == hpc[u] \in {"done", "crashed"}

\* the last chunk was delivered
Delivered(u) ==
    \E p \in At(u, "send") : hlog[u][p].ok /\ hlog[u][p].arg = Len(hchunks[u]) - 1

\* the state of the message of u: DONE when every chunk was delivered,
\* FAILED when the handler ended otherwise
Status(u) ==
    IF ~Ended(u) THEN "RUNNING"
    ELSE IF hout[u] = "success" /\ Delivered(u) THEN "DONE"
    ELSE "FAILED"

\* send p of u failed in the last mode: the chunk is given up
GivenUp(u, p) ==
    /\ hlog[u][p].op = "send"
    /\ hlog[u][p].mode = "plain"
    /\ ~hlog[u][p].ok

Notices(u) == {p \in At(u, "reply") : hlog[u][p].arg = "partial"}

\* C5: chunks are sent in order, one at a time: chunk i + 1 is attempted only
\* after chunk i was delivered, and a delivered chunk is not sent again; once
\* a chunk failed in every mode no later send is made, and exactly one
\* failure notice is replied.
C5_SequentialDelivery ==
    \A u \in Users :
        /\ \A p \in At(u, "send") :
              /\ hlog[u][p].arg > 0 =>
                    \E q \in At(u, "send") :
                        /\ q < p
                        /\ hlog[u][q].ok
                        /\ hlog[u][q].arg = hlog[u][p].arg - 1
              /\ \A q \in At(u, "send") :
                    (q < p /\ hlog[u][q].ok) => hlog[u][q].arg < hlog[u][p].arg
        /\ \A p \in 1..Len(hlog[u]) :
              GivenUp(u, p) =>
                  /\ \A q \in At(u, "send") : q <= p
                  /\ p < Len(hlog[u]) => p + 1 \in Notices(u)
                  /\ Ended(u) => Cardinality(Notices(u)) = 1
        /\ \A p \in Notices(u) : p > 1 /\ GivenUp(u, p - 1)
        /\ Cardinality(Notices(u)) <= 1

\* C5 witness: of three chunks the first was delivered, the second failed in
\* every mode, the notice was replied and the handler ended.
C5_Witness ==
    \E u \in Users :
        /\ hpc[u] = "done"
        /\ Len(hchunks[u]) = 3
        /\ \E p \in 1..Len(hlog[u]) : GivenUp(u, p) /\ hlog[u][p].arg = 1
        /\ Cardinality(Notices(u)) = 1

\* the sends of chunk i that failed before position p
FailedSends(u, i, p) ==
    {q \in At(u, "send") : q < p /\ hlog[u][q].arg = i /\ ~hlog[u][q].ok}

\* C6 as stated: a chunk is given up (the failure notice is replied) only
\* after three attempts in three modes have failed.
C6_ThreeModes ==
    \A u \in Users : \A p \in Notices(u) :
        Cardinality(FailedSends(u, hidx[u], p)) = 3

\* C6 as amended: the cascade has two modes.  The first attempt of a chunk is
\* the MarkdownV2 send; the send without parse mode comes only right after
\* the failed MarkdownV2 send of the same chunk and always follows it; the
\* chunk is given up only right after the send without parse mode failed.
C6_TwoModes ==
    \A u \in Users :
        /\ \A p \in At(u, "send") :
              /\ hlog[u][p].mode \in {"MarkdownV2", "plain"}
              /\ hlog[u][p].mode = "MarkdownV2" =>
                    \A q \in At(u, "send") : q < p => hlog[u][q].arg # hlog[u][p].arg
              /\ hlog[u][p].mode = "plain" =>
                    /\ p > 1
                    /\ hlog[u][p - 1] =
                          Entry("send", hlog[u][p].arg, "MarkdownV2", FALSE)
              /\ (hlog[u][p].mode = "MarkdownV2" /\ ~hlog[u][p].ok
                     /\ p < Len(hlog[u])) =>
                    /\ hlog[u][p + 1].op = "send"
                    /\ hlog[u][p + 1].mode = "plain"
                    /\ hlog[u][p + 1].arg = hlog[u][p].arg
        /\ \A p \in Notices(u) :
              /\ p > 2
              /\ hlog[u][p - 1] = Entry("send", hidx[u], "plain", FALSE)
              /\ hlog[u][p - 2] = Entry("send", hidx[u], "MarkdownV2", FALSE)
              /\ Cardinality(FailedSends(u, hidx[u], p)) = 2

\* C6 witness: a chunk failed with MarkdownV2, then without parse mode, and
\* the failure notice was replied.
C6_Witness ==
    \E u \in Users : \E p \in Notices(u) :
        /\ hlog[u][p].ok
        /\ Cardinality(FailedSends(u, hidx[u], p)) = 2

\* C7: at most one chat request is issued for a message.
C7_OneChatRequest ==
    \A u \in Users : Cardinality(At(u, "chat")) <= 1

\* C7 witness: the chat request timed out, the diagnostic was replied and the
\* handler ended with one chat request made.
C7_Witness ==
    \E u \in Users :
        /\ hpc[u] = "done"
        /\ hout[u] = "timeout"
        /\ Cardinality(At(u, "chat")) = 1
        /\ At(u, "reply") # {}

\* the first reply_text of the handler of u, when there is one
FirstReply(u) == hlog[u][CHOOSE p \in At(u, "reply") : \A q \in At(u, "reply") : p <= q]

\* C8 as stated: a handler that ended after a failed chat request, its
\* diagnostic delivered, sent no chunk and replied exactly one diagnostic: the
\* timed-out message for a timeout, the unreachable message for a connection
\* failure, a message with the backend's error text for a non-success status.
C8_FailureSurfacesErrorText ==
    \A u \in Users :
        (/\ hpc[u] = "done"
         /\ hout[u] \in {"timeout", "connection", "http_error", "model_error"}
         /\ At(u, "reply") # {}
         /\ FirstReply(u).ok) =>
            /\ At(u, "send") = {}
            /\ Cardinality(At(u, "reply")) = 1
            /\ hout[u] = "timeout" => FirstReply(u).arg = "timeout"
            /\ hout[u] = "connection" => FirstReply(u).arg = "connection"
            /\ hout[u] \in {"http_error", "model_error"} =>
                  Shows(FirstReply(u).arg) = "error_text"

\* the diagnostic of each failed outcome of the chat request
DiagnosticOf(outcome) ==
    CASE outcome = "timeout" -> "timeout"
      [] outcome = "connection" -> "connection"
      [] outcome = "http_error" -> "http_status"
      [] outcome = "model_error" -> "model_error"
      [] outcome = "other" -> "communication"

\* C8 as amended: after a failed chat request no chunk is sent, the message
\* ends FAILED, and the first diagnostic replied is the one of the outcome:
\* timed out, unreachable, the status code for a status that is not ok, the
\* backend's error text for an answer with success = false, the communication
\* error for any other exception; a delivered diagnostic is the only one.
\* Chunks are sent only after a successful answer.
C8_FailureDiagnostics ==
    \A u \in Users :
        /\ At(u, "send") # {} => hout[u] = "success"
        /\ hout[u] \notin {"none", "success"} =>
              /\ At(u, "send") = {}
              /\ hpc[u] \in {"reply", "done", "crashed"}
              /\ Ended(u) => Status(u) = "FAILED"
              /\ At(u, "reply") # {} =>
                    /\ FirstReply(u).arg = DiagnosticOf(hout[u])
                    /\ Shows(FirstReply(u).arg) =
                          (CASE hout[u] = "http_error" -> "status_code"
                             [] hout[u] = "model_error" -> "error_text"
                             [] OTHER -> "fixed_text")
                    /\ FirstReply(u).ok =>
                          (Cardinality(At(u, "reply")) = 1 /\ hpc[u] = "done")
              /\ hpc[u] = "done" => At(u, "reply") # {}

\* C8 witness: the backend answered with a status that is not ok, the
\* diagnostic with the status code was delivered and the handler ended.
C8_Witness ==
    \E u \in Users :
        /\ hpc[u] = "done"
        /\ hout[u] = "http_error"
        /\ At(u, "reply") # {}
        /\ FirstReply(u) = Entry("reply", "http_status", "-", TRUE)

\* C9 as stated: when get_user_model fails with no model available, no chat
\* request is issued and the diagnostic replied is the no-models message.
C9_NoModelsMessage ==
    \A u \in Users :
        herr[u] = "NoModelAvailable" =>
            /\ At(u, "chat") = {}
            /\ \A p \in At(u, "reply") : hlog[u][p].arg = "no_models"

\* C9 as amended: when get_user_model fails with no model available, no chat
\* request is issued, nothing is sent, the message ends FAILED and the
\* diagnostic replied is the unexpected-error message of the outer except.
C9_NoModelsUnexpected ==
    \A u \in Users :
        herr[u] = "NoModelAvailable" =>
            /\ At(u, "chat") = {}
            /\ At(u, "send") = {}
            /\ At(u, "typing") = {}
            /\ active_models[u] = NoEntry
            /\ hpc[u] \in {"reply", "done", "crashed"}
            /\ Ended(u) => Status(u) = "FAILED"
            /\ \A p \in At(u, "reply") : hlog[u][p].arg = "unexpected"
            /\ Cardinality(At(u, "reply")) <= 1
            /\ Ended(u) => Cardinality(At(u, "reply")) = 1

\* C9 witness: the listing was empty and the default model could not be
\* pulled; the unexpected-error message was delivered and the handler ended.
C9_Witness ==
    \E u \in Users :
        /\ herr[u] = "NoModelAvailable"
        /\ hpc[u] = "done"
        /\ \E p \in At(u, "pull") : ~hlog[u][p].ok
        /\ \E p \in At(u, "reply") : hlog[u][p] = Entry("reply", "unexpected", "-", TRUE)

\* the requests of get_user_model in the log of u
ResolveRequests(u) == At(u, "list") \cup At(u, "pull")

\* no chunk is sent before the chat request has returned with success
SendsFollowChat(u) ==
    \A p \in At(u, "send") :
        \E q \in At(u, "chat") : q < p /\ hlog[u][q].ok

\* C19 as stated: the typing indicator comes before get_user_model, so before
\* every listing or pull request; the chat request is issued only after the
\* model is resolved; no chunk is sent before the chat request has returned
\* with success.
C19_IndicatorFirst ==
    \A u \in Users :
        /\ \A p \in ResolveRequests(u) : \E q \in At(u, "typing") : q < p
        /\ \A p \in At(u, "chat") :
              /\ herr[u] = "none"
              /\ hlog[u][p].arg = hmodel[u]
              /\ \A q \in ResolveRequests(u) : q < p
              /\ \E q \in At(u, "typing") : q < p
        /\ SendsFollowChat(u)

\* C19 as amended: get_user_model comes first, with its listing and pull
\* requests; the typing indicator is shown only when the model was resolved,
\* after those requests; the chat request is issued only after the indicator
\* was shown, for the resolved model (the later indicators are those between
\* two chunks); no chunk is sent before the chat request has returned with
\* success.
C19_ResolveFirst ==
    \A u \in Users :
        /\ \A p \in At(u, "typing") :
              /\ herr[u] = "none"
              /\ hmodel[u] # NoEntry
              /\ \A q \in ResolveRequests(u) : q < p
              /\ \A q \in At(u, "chat") : q < p => \E r \in At(u, "typing") : r < q
        /\ \A p \in At(u, "chat") :
              /\ hlog[u][p].arg = hmodel[u]
              /\ \E q \in At(u, "typing") : q < p /\ hlog[u][q].ok
        /\ SendsFollowChat(u)

\* C19 witness: a message whose model was resolved by a listing and a pull,
\* then the indicator, then the chat request, then a chunk.
C19_Witness ==
    \E u \in Users :
        /\ hpc[u] = "done"
        /\ \E p \in At(u, "pull") : hlog[u][p].ok
        /\ \E p \in At(u, "typing") : \E q \in At(u, "pull") : q < p
        /\ \E p \in At(u, "send") : hlog[u][p].ok

----------------------------------------------------------------------------
(* The bot's commands: start, help, list_models, set_model, button_callback *)

\* the pieces of a model name between its colons
Parts(name) ==
    CASE name = "llama3:8b" -> <<"llama3", "8b">>
      [] OTHER -> <<name>>

\* line 141: f"model:{name}", as its pieces between the colons
CallbackData(name) == <<"model">> \o Parts(name)

\* line 156: query.data.startswith("model:")
StartsWithModel(data) == Len(data) >= 2 /\ data[1] = "model"

\* line 157: query.data.split(":")[1]
CallbackModelName(data) == data[2]

\* lines 137-141: one button for each model of the listing
Keyboard(listing) == [k \in 1..Len(listing) |-> CallbackData(listing[k])]

\* the listings the backend may start with when the commands are followed
RegistryListings ==
    {<<>>, <<"mistral">>, <<"llama3", "phi3">>, <<"llama3", "mistral">>, <<"llama3:8b">>}

\* a slip in line 159: the entry written is the one of a fixed user
SelectionKeyShared(u) == 1

\* line 159: the key of the entry button_callback writes, query.from_user.id
SelectionKey(u) == u

\* the handler of u reaches its reply_text kind, having made the requests reqs
ToReply(u, kind, shown, reqs) ==
    /\ hpc' = [hpc EXCEPT ![u] = "cmd_reply"]
    /\ hkind' = [hkind EXCEPT ![u] = kind]
    /\ hmodel' = [hmodel EXCEPT ![u] = shown]
    /\ hlog' = [hlog EXCEPT ![u] = reqs]

\* get_user_model as a command handler calls it: the entry and the backend
\* change as lines 55-70 say
Resolve(u, r) ==
    /\ active_models' = [active_models EXCEPT ![u] = r.entry]
    /\ installed' = r.installed

\* lines 72-76 and 86: /start of user u, up to its reply_text
Start(u) ==
    /\ MayStart(u)
    /\ \E ans \in ResolveAnswers(active_models[u]) :
          LET r == GetUserModel(active_models[u], installed, ans[1], ans[2], ans[3])
          IN  /\ Resolve(u, r)
              /\ ToReply(u, IF r.error = "none" THEN "welcome" ELSE "welcome_error",
                         r.model, r.reqs)
    /\ UNCHANGED <<splitVars, serviceVars, concurrent_updates, hout, herr, hchunks, hidx, hmode, hdata, keyboard>>

\* lines 92-101: /help of user u, up to its reply_text
Help(u) ==
    /\ MayStart(u)
    /\ \E ans \in ResolveAnswers(active_models[u]) :
          LET r == GetUserModel(active_models[u], installed, ans[1], ans[2], ans[3])
          IN  /\ Resolve(u, r)
              /\ ToReply(u, "help", r.model, r.reqs)
    /\ UNCHANGED <<splitVars, serviceVars, concurrent_updates, hout, herr, hchunks, hidx, hmode, hdata, keyboard>>

\* lines 111-116 and 123-127 of list_models, lines 131-136 and 145-149 of
\* set_model: the listing request, then get_user_model, up to the reply_text
Listing(u, shows, failed, error) ==
    /\ MayStart(u)
    /\ \E lo \in ListOutcomes :
          LET req == <<Entry("list", "-", "-", lo = "ok")>>
          IN  IF lo = "exc"
              THEN /\ ToReply(u, error, NoEntry, req)
                   /\ UNCHANGED <<active_models, installed, hdata>>
              ELSE IF lo = "fail"
              THEN /\ ToReply(u, failed, NoEntry, req)
                   /\ UNCHANGED <<active_models, installed, hdata>>
              ELSE \E ans \in ResolveAnswers(active_models[u]) :
                     LET r == GetUserModel(active_models[u], installed,
                                           ans[1], ans[2], ans[3])
                     IN  /\ Resolve(u, r)
                         /\ hdata' = [hdata EXCEPT ![u] = installed]
                         /\ ToReply(u, IF r.error = "none" THEN shows ELSE error,
                                    r.model, req \o r.reqs)
    /\ UNCHANGED <<splitVars, serviceVars, concurrent_updates, hout, herr, hchunks, hidx, hmode, keyboard>>

\* lines 109-127: /models of user u
ListModels(u) == Listing(u, "models", "models_failed", "models_error")

\* lines 129-149: /setmodel of user u
SetModel(u) == Listing(u, "keyboard", "setmodel_failed", "setmodel_error")

\* after a reply_text of a command raised: line 77 is caught at line 86, lines
\* 122 and 124 at line 125, lines 144 and 146 at line 147; an exception of the
\* other calls leaves the handler
AfterCommandReplyFailure(kind) ==
    CASE kind = "welcome" -> [pc |-> "cmd_reply", kind |-> "welcome_error"]
      [] kind \in {"models", "models_failed"} ->
            [pc |-> "cmd_reply", kind |-> "models_error"]
      [] kind \in {"keyboard", "setmodel_failed"} ->
            [pc |-> "cmd_reply", kind |-> "setmodel_error"]
      [] OTHER -> [pc |-> "crashed", kind |-> "-"]

\* the reply_text of a command handler; the keyboard of line 144 is shown
CommandReply(u) ==
    /\ hpc[u] = "cmd_reply"
    /\ \E ok \in BOOLEAN :
          /\ Log(u, <<Entry("reply", hkind[u], hmodel[u], ok)>>)
          /\ IF ok
             THEN /\ hpc' = [hpc EXCEPT ![u] = "done"]
                  /\ hkind' = [hkind EXCEPT ![u] = "-"]
                  /\ keyboard' = [keyboard EXCEPT ![u] =
                                    IF hkind[u] = "keyboard" THEN Keyboard(hdata[u])
                                    ELSE keyboard[u]]
             ELSE LET after == AfterCommandReplyFailure(hkind[u])
                  IN  /\ hpc' = [hpc EXCEPT ![u] = after.pc]
                      /\ hkind' = [hkind EXCEPT ![u] = after.kind]
                      /\ UNCHANGED keyboard
    /\ UNCHANGED <<splitVars, serviceVars, concurrent_updates, active_models, installed, hmodel, hout, herr,
                   hchunks, hidx, hmode, hdata>>

\* lines 153-154: user u presses a button of the keyboard; query.answer()
ButtonCallback(u) ==
    /\ MayStart(u)
    /\ \E k \in 1..Len(keyboard[u]) :
          hdata' = [hdata EXCEPT ![u] = keyboard[u][k]]
    /\ hpc' = [hpc EXCEPT ![u] = "cb_answer"]
    /\ hlog' = [hlog EXCEPT ![u] = <<>>]
    /\ UNCHANGED <<splitVars, serviceVars, concurrent_updates, active_models, installed, hmodel, hout, herr,
                   hchunks, hidx, hmode, hkind, keyboard>>

\* line 154 raised: the exception leaves the handler
CallbackAnswerFails(u) ==
    /\ hpc[u] = "cb_answer"
    /\ Log(u, <<Entry("answer", "-", "-", FALSE)>>)
    /\ hpc' = [hpc EXCEPT ![u] = "crashed"]
    /\ UNCHANGED <<splitVars, serviceVars, concurrent_updates, active_models, installed, hmodel, hout, herr,
                   hchunks, hidx, hmode, hkind, hdata, keyboard>>

\* lines 154-159 and 161: query.answer() returned; the ensure-step for the name
\* of the callback data; the entry is written when it succeeded
CallbackEnsure(u) ==
    /\ hpc[u] = "cb_answer"
    /\ IF ~StartsWithModel(hdata[u])
       THEN /\ Log(u, <<Entry("answer", "-", "-", TRUE)>>)
            /\ hpc' = [hpc EXCEPT ![u] = "done"]
            /\ UNCHANGED <<active_models, installed, hmodel, hkind>>
       ELSE \E lo \in ListOutcomes, po \in PullOutcomes :
              LET model_name == CallbackModelName(hdata[u])
                  e == EnsureModelExists(model_name, installed, lo, po)
              IN  /\ Log(u, <<Entry("answer", "-", "-", TRUE)>> \o e.reqs)
                  /\ installed' = e.installed
                  /\ hmodel' = [hmodel EXCEPT ![u] = model_name]
                  /\ active_models' =
                        IF e.result
                        THEN [active_models EXCEPT ![SelectionKey(u)] = model_name]
                        ELSE active_models
                  /\ hkind' = [hkind EXCEPT ![u] = IF e.result THEN "set" ELSE "failed"]
                  /\ hpc' = [hpc EXCEPT ![u] = "cb_edit"]
    /\ UNCHANGED <<splitVars, serviceVars, concurrent_updates, hout, herr, hchunks, hidx, hmode, hdata, keyboard>>

\* lines 160 and 162: edit_message_text; an exception leaves the handler
CallbackEdit(u) ==
    /\ hpc[u] = "cb_edit"
    /\ \E ok \in BOOLEAN :
          /\ Log(u, <<Entry("edit", hkind[u], hmodel[u], ok)>>)
          /\ hpc' = [hpc EXCEPT ![u] = IF ok THEN "done" ELSE "crashed"]
    /\ hkind' = [hkind EXCEPT ![u] = "-"]
    /\ UNCHANGED <<splitVars, serviceVars, concurrent_updates, active_models, installed, hmodel, hout, herr,
                   hchunks, hidx, hmode, hdata, keyboard>>

RegistryInit == SplitIdle /\ BotStart(RegistryListings) /\ ServiceStart

\* a step of a command handler
CommandsNext ==
    \E u \in Users :
        \/ Start(u)
        \/ Help(u)
        \/ ListModels(u)
        \/ SetModel(u)
        \/ CommandReply(u)
        \/ ButtonCallback(u)
        \/ CallbackAnswerFails(u)
        \/ CallbackEnsure(u)
        \/ CallbackEdit(u)
        \/ Return(u)

\* a step of a command handler or of a message handler
RegistryNext == CommandsNext \/ RelayNext

SpecRegistry == RegistryInit /\ [][RegistryNext]_vars

\* the listings the backend may start with when the handlers run concurrently
ConcurrentListings == {<<>>, <<"llama3">>}

\* The handlers of the commands, of the buttons and of the messages with
\* concurrent_updates set: the handlers of different users are interleaved at
\* their awaits.  The orders of steps of the application as built, which runs
\* one handler at a time, are among these.
ConcurrentInit ==
    /\ SplitIdle
    /\ ServiceStart
    /\ concurrent_updates = TRUE
    /\ active_models = [u \in Users |-> NoEntry]
    /\ installed \in ConcurrentListings
    /\ hpc = [u \in Users |-> "idle"]
    /\ hmodel = [u \in Users |-> NoEntry]
    /\ hout = [u \in Users |-> "none"]
    /\ herr = [u \in Users |-> "none"]
    /\ hchunks = [u \in Users |-> <<>>]
    /\ hidx = [u \in Users |-> 0]
    /\ hmode = [u \in Users |-> "-"]
    /\ hkind = [u \in Users |-> "-"]
    /\ hlog = [u \in Users |-> <<>>]
    /\ hdata = [u \in Users |-> <<>>]
    /\ keyboard = [u \in Users |-> <<>>]

SpecConcurrent == ConcurrentInit /\ [][RegistryNext]_vars

----------------------------------------------------------------------------
(* Properties of the registry of active models *)

\* the step is a step of a handler of v
StepOf(v) == hpc'[v] # hpc[v] \/ hlog'[v] # hlog[v]

\* the step is the successful ensure-step of a selection of u
SelectionStep(u) ==
    /\ hpc[u] = "cb_answer"
    /\ hpc'[u] = "cb_edit"
    /\ hkind'[u] = "set"
    /\ active_models'[u] = CallbackModelName(hdata[u])
    /\ hlog'[u][Len(hlog'[u])].ok

\* the step is a default-resolution of u, who has no entry: get_user_model
\* at the start of a command handler or of the message handler
ResolutionStep(u) ==
    /\ active_models[u] = NoEntry
    /\ hpc[u] = "idle"
    /\ hpc'[u] \in {"cmd_reply", "typing"}
    /\ \/ active_models'[u] = DEFAULT_MODEL
       \/ installed' # <<>> /\ active_models'[u] = installed'[1]

\* C11: with the handlers of the users interleaved, the entry of a user in
\* active_models changes only in a step of a handler of that user and of no
\* other user, only to a model name, and only by a successful selection or by
\* default-resolution when the user has no entry; an entry is never removed.
C11_OwnWritesOnly ==
    [][\A u \in Users :
          /\ active_models[u] # NoEntry => active_models'[u] # NoEntry
          /\ active_models'[u] # active_models[u] =>
                /\ StepOf(u)
                /\ \A v \in Users \ {u} : ~StepOf(v)
                /\ SelectionStep(u) \/ ResolutionStep(u)]_vars

\* C11 witness: one user has selected a model while the message handler of
\* the other user, whose entry was set by the default-resolution of that
\* handler, is before its chat request.
C11_Witness ==
    \E u \in Users : \E v \in Users \ {u} :
        /\ hpc[u] = "cb_edit"
        /\ hkind[u] = "set"
        /\ active_models[u] = hmodel[u]
        /\ hpc[v] = "chat"
        /\ At(v, "pull") # {}
        /\ active_models[v] \notin {NoEntry, active_models[u]}

\* the reply_text kinds of list_models and set_model, whose handlers make a
\* listing request of their own before they call get_user_model
ListingKinds == {"models", "models_failed", "models_error",
                 "keyboard", "setmodel_failed", "setmodel_error"}

\* the step starts a handler of u, who has no entry, other than button_callback
Resolving(u) ==
    /\ active_models[u] = NoEntry
    /\ hpc[u] = "idle"
    /\ hpc'[u] \notin {"idle", "cb_answer"}

\* the requests get_user_model made in the step
GumReqs(u) == IF hkind'[u] \in ListingKinds THEN Tail(hlog'[u]) ELSE hlog'[u]

\* the step called get_user_model for u, who has no entry
Called(u) == Resolving(u) /\ GumReqs(u) # <<>>

ListOk == Entry("list", "-", "-", TRUE)

\* C12: get_user_model for a user without entry, when the listing the
\* ensure-step gets has the default model, returns the default model and
\* records it as the user's entry, and the only request made is that listing:
\* no pull request is issued.
C12_DefaultPresentNoPull ==
    [][\A u \in Users :
          (/\ Called(u)
           /\ GumReqs(u)[1].ok
           /\ InListing(DEFAULT_MODEL, installed)) =>
              /\ active_models'[u] = DEFAULT_MODEL
              /\ hmodel'[u] = DEFAULT_MODEL
              /\ GumReqs(u) = <<ListOk>>
              /\ \A p \in 1..Len(hlog'[u]) : hlog'[u][p].op # "pull"
              /\ installed' = installed]_vars

\* C12 witness: /start of a user without entry met a listing that has the
\* default model after another model; the default was resolved with the
\* listing request alone.
C12_Witness ==
    \E u \in Users :
        /\ hpc[u] = "cmd_reply"
        /\ hkind[u] = "welcome"
        /\ hlog[u] = <<ListOk>>
        /\ installed = <<"llama3", "mistral">>
        /\ active_models[u] = DEFAULT_MODEL

\* C13: get_user_model for a user without entry, when the default model is
\* not in a non-empty listing, its pull fails and the listing request of line
\* 63 is answered, returns the first model of the listing in listing order and
\* records it as the user's entry; the same after any failed ensure-step.
C13_FirstListedFallback ==
    [][\A u \in Users :
          (/\ Called(u)
           /\ installed # <<>>
           /\ Len(GumReqs(u)) >= 2
           /\ GumReqs(u)[Len(GumReqs(u))] = ListOk) =>
              /\ active_models'[u] = installed[1]
              /\ hmodel'[u] = installed[1]
              /\ installed' = installed
              /\ (~InListing(DEFAULT_MODEL, installed) /\ GumReqs(u)[1].ok) =>
                    GumReqs(u) = <<ListOk, Entry("pull", DEFAULT_MODEL, "-", FALSE),
                                   ListOk>>]_vars

\* C13 witness: the listing is llama3, phi3; the pull of the default failed
\* and llama3 was recorded and returned.
C13_Witness ==
    \E u \in Users :
        /\ hpc[u] = "cmd_reply"
        /\ hkind[u] = "welcome"
        /\ installed = <<"llama3", "phi3">>
        /\ hlog[u] = <<ListOk, Entry("pull", DEFAULT_MODEL, "-", FALSE), ListOk>>
        /\ active_models[u] = "llama3"
        /\ hmodel[u] = "llama3"

\* C14: get_user_model for a user without entry fails with NoModelAvailable
\* when the ensure-step for the default failed and the backend reports an
\* empty listing; the user then still has no entry, and every call for a user
\* without entry starts again with the ensure-step.
C14_NoModelAvailable ==
    [][\A u \in Users :
          /\ (/\ Called(u)
              /\ installed' = <<>>
              /\ Len(GumReqs(u)) >= 2
              /\ GumReqs(u)[Len(GumReqs(u))] = ListOk) =>
                 /\ active_models'[u] = NoEntry
                 /\ hmodel'[u] = NoEntry
                 /\ hkind'[u] \in {"welcome_error", "help", "models_error",
                                   "setmodel_error", "unexpected"}
                 /\ hpc'[u] = "reply" => herr'[u] = "NoModelAvailable"
          /\ Called(u) => GumReqs(u)[1].op = "list"
          /\ (Resolving(u) /\ hkind'[u] \notin ListingKinds) => Called(u)]_vars

\* C14 witness: the handler of a message of a user without entry ended after
\* the pull of the default failed and the backend reported an empty listing;
\* the user still has no entry.
C14_Witness ==
    \E u \in Users :
        /\ hpc[u] = "done"
        /\ herr[u] = "NoModelAvailable"
        /\ installed = <<>>
        /\ active_models[u] = NoEntry
        /\ SubSeq(hlog[u], 1, 3) =
              <<ListOk, Entry("pull", DEFAULT_MODEL, "-", FALSE), ListOk>>

\* C15: button_callback writes the user's entry only when the ensure-step for
\* the name of the callback succeeded, and then writes that name; when the
\* ensure-step failed the entry (or its absence) is as before and the message
\* edited is the failure message with that name.
C15_SetOnlyWhenEnsured ==
    [][\A u \in Users :
          (hpc[u] = "cb_answer" /\ hpc'[u] = "cb_edit") =>
              LET model_name == CallbackModelName(hdata[u])
                  last == hlog'[u][Len(hlog'[u])]
              IN  /\ hmodel'[u] = model_name
                  /\ hkind'[u] \in {"set", "failed"}
                  /\ hkind'[u] = "set" <=> last.ok
                  /\ last.op = "pull" => last.arg = model_name
                  /\ hkind'[u] = "set" =>
                        /\ active_models'[u] = model_name
                        /\ InListing(model_name, installed')
                  /\ hkind'[u] = "failed" => active_models' = active_models]_vars

\* C15 witness: a user with an entry picked another model, the pull failed,
\* the failure message was shown and the entry is as before.
C15_Witness ==
    \E u \in Users :
        /\ hpc[u] = "done"
        /\ \E p \in At(u, "edit") :
              /\ hlog[u][p] = Entry("edit", "failed", hmodel[u], TRUE)
              /\ hlog[u][p - 1] = Entry("pull", hmodel[u], "-", FALSE)
        /\ active_models[u] \notin {NoEntry, hmodel[u]}

\* the names the backend may list
ListedNames == UNION {{l[k] : k \in 1..Len(l)} : l \in RegistryListings}

\* C23: when the selection a user made on the keyboard has succeeded, the
\* user's active model is exactly the listed name of the button pressed, also
\* for a name with a colon, and the ensure-step was run on that full name.
C23_PickedNameSelected ==
    \A u \in Users :
        (hpc[u] = "cb_edit" /\ hkind[u] = "set") =>
            \E name \in ListedNames :
                /\ hdata[u] = CallbackData(name)
                /\ active_models[u] = name
                /\ hmodel[u] = name
                /\ \A p \in At(u, "pull") : hlog[u][p].arg = name

----------------------------------------------------------------------------
(* The HTTP service: OllamaService.chat and clear_chat_history *)

\* the message texts of chat requests and the contents of the runtime's answers
Msgs == {"q1", "q2"}
Answers == {"r1"}

Message(role, content) == [role |-> role, content |-> content]

ResetLocals(t) ==
    /\ treq' = [treq EXCEPT ![t] = NoRequest]
    /\ tflag' = [tflag EXCEPT ![t] = FALSE]
    /\ tsent' = [tsent EXCEPT ![t] = <<>>]
    /\ tans' = [tans EXCEPT ![t] = "-"]

\* the threads that serve a chat request
InFlight == {t \in Threads : tpc[t] # "idle"}

\* the number of messages stored for the sessions S
RECURSIVE Stored(_)
Stored(S) ==
    IF S = {} THEN 0
    ELSE LET sid == CHOOSE x \in S : TRUE
         IN  Len(conversations[sid]) + Stored(S \ {sid})

\* self.conversations[session_id] = []: the session's history is a new empty
\* list; a thread that has looked up the old list for its append (lines 79, 80)
\* still holds the old one
Rebind(sid) ==
    /\ conversations' = [conversations EXCEPT ![sid] = <<>>]
    /\ tstale' = [t \in Threads |->
                    IF /\ tpc[t] \in {"user_append", "assistant_append"}
                       /\ treq[t].session_id = sid
                    THEN TRUE ELSE tstale[t]]

\* lines 127-131: a chat request without model or message is answered 400
ChatBadRequest(t) ==
    /\ tpc[t] = "idle"
    /\ tres[t] # "400"
    /\ tres' = [tres EXCEPT ![t] = "400"]
    /\ UNCHANGED <<splitVars, botVars, conversations, known, tpc, treq, tflag,
                   tsent, tans, tstale>>

\* lines 127-134 and 66-68: a chat request enters chat(); the test of line 68
ChatEnter(t) ==
    /\ tpc[t] = "idle"
    /\ \E sid \in Sessions, msg \in Msgs :
          /\ Stored(Sessions) + 2 * Cardinality(InFlight) + 2 <= MaxHistory
          /\ treq' = [treq EXCEPT ![t] =
                        [kind |-> "chat", session_id |-> sid, message |-> msg]]
          /\ tflag' = [tflag EXCEPT ![t] = sid \notin known]
    /\ tpc' = [tpc EXCEPT ![t] = "init"]
    /\ UNCHANGED <<splitVars, botVars, conversations, known, tsent, tans, tstale, tres>>

\* line 69: the history is initialised when the test of line 68 found none
ChatInit(t) ==
    /\ tpc[t] = "init"
    /\ IF tflag[t]
       THEN /\ Rebind(treq[t].session_id)
            /\ known' = known \cup {treq[t].session_id}
       ELSE UNCHANGED <<conversations, known, tstale>>
    /\ tpc' = [tpc EXCEPT ![t] = "call"]
    /\ UNCHANGED <<splitVars, botVars, treq, tflag, tsent, tans, tres>>

\* lines 73-76: the runtime is called with the history and the new message
ChatCall(t) ==
    /\ tpc[t] = "call"
    /\ tsent' = [tsent EXCEPT ![t] =
                   Append(conversations[treq[t].session_id],
                          Message("user", treq[t].message))]
    /\ tpc' = [tpc EXCEPT ![t] = "runtime"]
    /\ UNCHANGED <<splitVars, botVars, conversations, known, treq, tflag, tans,
                   tstale, tres>>

\* line 73: ollama.chat returns
RuntimeAnswer(t) ==
    /\ tpc[t] = "runtime"
    /\ \E a \in Answers : tans' = [tans EXCEPT ![t] = a]
    /\ tpc' = [tpc EXCEPT ![t] = "user_lookup"]
    /\ UNCHANGED <<splitVars, botVars, conversations, known, treq, tflag, tsent,
                   tstale, tres>>

\* lines 73 and 89-90: ollama.chat raises; the answer is success = false
RuntimeError(t) ==
    /\ tpc[t] = "runtime"
    /\ tres' = [tres EXCEPT ![t] = "error"]
    /\ tpc' = [tpc EXCEPT ![t] = "idle"]
    /\ ResetLocals(t)
    /\ UNCHANGED <<splitVars, botVars, conversations, known, tstale>>

\* self.conversations[session_id] of lines 79 and 80: the thread takes the
\* list object that is the session's history now
Lookup(t, next) ==
    /\ tstale' = [tstale EXCEPT ![t] = FALSE]
    /\ tpc' = [tpc EXCEPT ![t] = next]
    /\ UNCHANGED <<splitVars, botVars, conversations, known, treq, tflag, tsent,
                   tans, tres>>

\* .append(message) on the list the thread took: the session's history grows
\* unless that list was replaced meanwhile
AppendTo(t, message) ==
    LET sid == treq[t].session_id
    IN  IF tstale[t] THEN UNCHANGED conversations
        ELSE conversations' = [conversations EXCEPT ![sid] = Append(conversations[sid], message)]

\* line 79: self.conversations[session_id]
LookupUser(t) ==
    /\ tpc[t] = "user_lookup"
    /\ Lookup(t, "user_append")

\* line 79: .append of the user message
AppendUser(t) ==
    /\ tpc[t] = "user_append"
    /\ AppendTo(t, Message("user", treq[t].message))
    /\ tpc' = [tpc EXCEPT ![t] = "assistant_lookup"]
    /\ tstale' = [tstale EXCEPT ![t] = FALSE]
    /\ UNCHANGED <<splitVars, botVars, known, treq, tflag, tsent, tans, tres>>

\* line 80: self.conversations[session_id]
LookupAssistant(t) ==
    /\ tpc[t] = "assistant_lookup"
    /\ Lookup(t, "assistant_append")

\* lines 80-88: .append of the answer; the answer is returned
AppendAssistant(t) ==
    /\ tpc[t] = "assistant_append"
    /\ AppendTo(t, Message("assistant", tans[t]))
    /\ tres' = [tres EXCEPT ![t] = "ok"]
    /\ tpc' = [tpc EXCEPT ![t] = "idle"]
    /\ tstale' = [tstale EXCEPT ![t] = FALSE]
    /\ ResetLocals(t)
    /\ UNCHANGED <<splitVars, botVars, known>>

\* a slip in lines 110-111: every history is reset
ClearChatHistoryAll(t) ==
    /\ tpc[t] = "idle"
    /\ conversations' = [sid \in Sessions |-> <<>>]
    /\ tstale' = [x \in Threads |->
                    tstale[x] \/ tpc[x] \in {"user_append", "assistant_append"}]
    /\ tres' = [tres EXCEPT ![t] = "cleared"]
    /\ UNCHANGED <<splitVars, botVars, known, tpc, treq, tflag, tsent, tans>>

\* lines 144-146 and 107-112: a clear request; the answer is success with
\* the message that the history was cleared
ClearChatHistory(t) ==
    /\ tpc[t] = "idle"
    /\ \E sid \in Sessions :
          IF sid \in known THEN Rebind(sid)
          ELSE UNCHANGED <<conversations, tstale>>
    /\ tres' = [tres EXCEPT ![t] = "cleared"]
    /\ UNCHANGED <<splitVars, botVars, known, tpc, treq, tflag, tsent, tans>>

ServiceInit == SplitIdle /\ BotStart({<<>>}) /\ ServiceStart

ServiceNext ==
    \E t \in Threads :
        \/ ChatBadRequest(t)
        \/ ChatEnter(t)
        \/ ChatInit(t)
        \/ ChatCall(t)
        \/ RuntimeAnswer(t)
        \/ RuntimeError(t)
        \/ LookupUser(t)
        \/ AppendUser(t)
        \/ LookupAssistant(t)
        \/ AppendAssistant(t)
        \/ ClearChatHistory(t)

SpecService == ServiceInit /\ [][ServiceNext]_vars

----------------------------------------------------------------------------
(* Properties of the HTTP service *)

\* a history of strict request/response pairs
StrictPairs(h) ==
    /\ Len(h) % 2 = 0
    /\ \A k \in 1..Len(h) : h[k].role = IF k % 2 = 1 THEN "user" ELSE "assistant"

\* C10: whenever no request is being served, every session's history is of
\* even length and alternates user, assistant, user, assistant, ..., also
\* after chat requests for one session that overlapped each other or a clear.
C10_StrictPairs ==
    (\A t \in Threads : tpc[t] = "idle") =>
        \A sid \in Sessions : StrictPairs(conversations[sid])

\* a step in which thread t answers a clear request
ClearStepBy(t) ==
    /\ tpc[t] = "idle"
    /\ tpc'[t] = "idle"
    /\ tres'[t] = "cleared"
    /\ \A x \in Threads \ {t} : tpc'[x] = tpc[x] /\ tres'[x] = tres[x]

\* an idle thread's answers: a request without message, or a clear request
IdleAnswers(t) ==
    (tpc[t] = "idle" /\ tpc'[t] = "idle") => tres'[t] \in {tres[t], "400", "cleared"}

\* C18: a clear request for any session, also one without history or one
\* cleared before, is answered with success; in that step the session's history
\* becomes empty while its entry stays (no entry is made or deleted), a clear
\* of an empty history changes nothing, and the other sessions' histories
\* are unchanged.
C18_ClearIdempotentTotal ==
    [][\A t \in Threads :
          /\ IdleAnswers(t)
          /\ ClearStepBy(t) =>
                /\ known' = known
                /\ \E sid \in Sessions :
                      /\ conversations' = [conversations EXCEPT ![sid] = <<>>]
                      /\ conversations[sid] = <<>> => conversations' = conversations]_vars

C18_Witness ==
    /\ \A t \in Threads : tpc[t] = "idle"
    /\ \E t \in Threads : tres[t] = "cleared"
    /\ "1" \in known
    /\ "2" \in known
    /\ conversations["1"] = <<>>
    /\ Len(conversations["2"]) = 2

\* thread t ends its chat request with success in this step
ChatSucceeds(t) == tpc[t] = "assistant_append" /\ tpc'[t] = "idle"

\* thread t ends its chat request with success = false in this step
ChatFails(t) == tpc[t] = "runtime" /\ tpc'[t] = "idle"

\* thread t takes a step of its chat request before the runtime has answered
BeforeAnswer(t) == tpc[t] \in {"init", "call", "runtime"} /\ tpc'[t] # tpc[t]

\* thread t rejects a request without model or message in this step
Rejects(t) == tpc[t] = "idle" /\ tpc'[t] = "idle" /\ tres'[t] = "400" /\ tres[t] # "400"

\* C22: a chat request changes the histories only when it succeeds, and then
\* the session's history is what the runtime was called with (the history
\* before, then the user message) followed by the assistant's reply, the other
\* sessions unchanged; a request whose runtime call fails is answered
\* success = false and no step of it changes the contents of a history; a
\* request without model or message is rejected with status 400 and touches
\* no history.
C22_HistoryOnlyOnSuccess ==
    [][\A t \in Threads :
          LET sid == treq[t].session_id
          IN  /\ ChatSucceeds(t) =>
                    /\ tres'[t] = "ok"
                    /\ conversations' =
                          [conversations EXCEPT ![sid] =
                              tsent[t] \o <<Message("assistant", tans[t])>>]
                    /\ Len(tsent[t]) >= 1
                    /\ tsent[t][Len(tsent[t])] = Message("user", treq[t].message)
              /\ ChatFails(t) => tres'[t] = "error"
              /\ BeforeAnswer(t) => conversations' = conversations
              /\ Rejects(t) => conversations' = conversations /\ known' = known]_vars

====
